---- MODULE Spec2Model ----
(***************************************************************************)
(* A model of dspy-go's typed signatures (pkg/core/typed_signature.go):    *)
(* the type introspector, the validator, the legacy bridge and the         *)
(* process-wide signature cache.                                           *)
(*                                                                         *)
(* A declared Go type is a record [kind, ...]; a struct field declaration  *)
(* is a record [Name, Type, dspy, description, prefix] whose dspy tag is   *)
(* kept as the list strings.Split(tag, ",") yields (<<>> for no tag).      *)
(***************************************************************************)
EXTENDS Integers, Sequences, FiniteSets, TLC

VARIABLES
    tin,        \* TInput  of the NewTypedSignature call under study
    tout,       \* TOutput of the NewTypedSignature call under study
    ts,         \* the *typedSignatureImpl it returned, or None
    legacy,     \* the Signature ToLegacySignature returned, or None
    upgraded,   \* the typed signature FromLegacySignature returned, or None
    val,        \* the last value handed to ValidateInput / ValidateOutput
    result,     \* the error (or Ok) that call returned, or None
    metadata,   \* the SignatureMetadata GetFieldMetadata last returned, or None
    cache,      \* typedSignatureCache: signatureCacheKey -> instance address
    heap,       \* instance address -> *typedSignatureImpl
    stores,     \* signatureCacheKey -> number of values ever stored under it
    callers,    \* one record per goroutine inside NewTypedSignatureCached
    schema,     \* the *TypeSchema BuildSchemaFromStruct returned, or None
    notation,   \* the string handed to ParseSignature, or None
    parsed,     \* what ParseSignature returned for it, or None
    sigs,       \* the Signature values AppendInput / PrependOutput work on
    arrays      \* the backing arrays the slices of those signatures point into

\* the state of the schema synthesizer and of the untyped signatures
untyped == <<schema, notation, parsed, sigs, arrays>>

vars == <<tin, tout, ts, legacy, upgraded, val, result, metadata, cache, heap, stores,
          callers, untyped>>

None == [none |-> TRUE]

(***************************************************************************)
(* Bounds of the model.                                                    *)
(***************************************************************************)
MaxFields == 2
MaxDepth == 3
NumCallers == 2
MaxDerived == 1
MaxNotation == 6
MaxSigs == 4

(***************************************************************************)
(* FieldType, signature.go.                                                *)
(***************************************************************************)
FieldTypeText == "text"
FieldTypeImage == "image"
FieldTypeInt == "int"
FieldTypeBool == "bool"
FieldTypeString == "string"
FieldTypeArray == "array"
FieldTypeObject == "object"

(***************************************************************************)
(* reflect.Type: the declared types.                                       *)
(***************************************************************************)
Prim(k) == [kind |-> k]
Ptr(t) == [kind |-> "ptr", elem |-> t]
Slice(t) == [kind |-> "slice", elem |-> t]
ArrayOf(t) == [kind |-> "array", elem |-> t]
MapType == [kind |-> "map"]
Struct(n, fs) == [kind |-> "struct", name |-> n, fields |-> fs]
NilType == [kind |-> "niltype"]

IntKinds == {"int", "int8", "int16", "int32", "int64"}

\* reflect.Type.Elem
Elem(t) == t.elem

\* reflect.Type.Name: the declared name, "" for an unnamed composite type
TypeName(t) ==
    IF t.kind = "struct" THEN t.name
    ELSE IF t.kind \in {"ptr", "slice", "array", "map", "interface"} THEN ""
    ELSE t.kind

\* a struct field declaration with its tags
FieldDecl(n, t, tag) ==
    [Name |-> n, Type |-> t, dspy |-> tag.dspy,
     description |-> tag.description, prefix |-> tag.prefix]

NoTag == [dspy |-> <<>>, description |-> "", prefix |-> ""]

\* strings.ToLower over the identifiers of the model
ToLower(s) ==
    CASE s = "Name" -> "name"
      [] s = "NAME" -> "name"
      [] s = "Age" -> "age"
      [] s = "A" -> "a"
      [] s = "B" -> "b"
      [] s = "C" -> "c"
      [] s = "D" -> "d"
      [] s = "Question" -> "question"
      [] s = "Answer" -> "answer"
      [] s = "Inner1" -> "inner1"
      [] s = "Inner2" -> "inner2"
      [] s = "Inner3" -> "inner3"
      [] OTHER -> s

\* strings.TrimSpace over the tag options of the model
TrimSpace(s) ==
    CASE s = " required" -> "required"
      [] s = "required " -> "required"
      [] OTHER -> s

\* reflect.StructField.IsExported: the identifier starts with an upper-case letter
IsExported(sf) == sf.Name \notin {"secret", "hidden"}

(***************************************************************************)
(* FieldMetadata and its two references.                                   *)
(***************************************************************************)
NilItem == [isnil |-> TRUE]
ItemRef(d) == [isnil |-> FALSE, ref |-> d]
NilProps == [isnil |-> TRUE]
PropsMap(f) == [isnil |-> FALSE, entries |-> f]

\* a Go string kept as the list of the pieces it is concatenated from
Str(s) == IF s = "" THEN <<>> ELSE <<s>>

\* m[k] = v on a Go map
MapPut(m, k, v) == [x \in (DOMAIN m) \cup {k} |-> IF x = k THEN v ELSE m[x]]

\* inferFieldType, typed_signature.go 155-183
inferFieldType(t0) ==
    LET t == IF t0.kind = "ptr" THEN Elem(t0) ELSE t0
    IN  CASE t.kind = "string" -> FieldTypeString
          [] t.kind = "bool" -> FieldTypeBool
          [] t.kind \in IntKinds -> FieldTypeInt
          [] t.kind = "slice" ->
                IF Elem(t).kind = "uint8" THEN FieldTypeImage ELSE FieldTypeArray
          [] t.kind \in {"map", "struct"} -> FieldTypeObject
          [] OTHER -> FieldTypeText

\* the dspy tag's options name "required" (typed_signature.go 113-117)
RECURSIVE HasRequired(_, _)
HasRequired(parts, i) ==
    IF i > Len(parts) THEN FALSE
    ELSE IF TrimSpace(parts[i]) = "required" THEN TRUE
    ELSE HasRequired(parts, i + 1)

RECURSIVE parseFieldMetadataRecursive(_, _)
RECURSIVE parseObjectPropertiesLoop(_, _, _)

\* parseObjectProperties, typed_signature.go 191-212
parseObjectProperties(t0) ==
    LET t == IF t0.kind = "ptr" THEN Elem(t0) ELSE t0
    IN  IF t.kind # "struct" THEN PropsMap(<<>>)
        ELSE PropsMap(parseObjectPropertiesLoop(t.fields, 1, <<>>))

\* the loop of parseObjectProperties, typed_signature.go 201-209
parseObjectPropertiesLoop(fields, i, props) ==
    IF i > Len(fields) THEN props
    ELSE IF ~IsExported(fields[i]) THEN parseObjectPropertiesLoop(fields, i + 1, props)
    ELSE LET child == parseFieldMetadataRecursive(fields[i], TRUE)
         IN  parseObjectPropertiesLoop(fields, i + 1, MapPut(props, child.Name, child))

\* parseArrayElement, typed_signature.go 220-231
parseArrayElement(t) ==
    LET elem == Elem(t)
        fakeField == FieldDecl(TypeName(elem), elem, NoTag)
    IN  ItemRef(parseFieldMetadataRecursive(fakeField, TRUE))

\* parseFieldMetadataRecursive, typed_signature.go 97-147
parseFieldMetadataRecursive(field, isInput) ==
    LET type == inferFieldType(field.Type)
        tagged == field.dspy # <<>>
        name == IF tagged /\ field.dspy[1] # "" THEN field.dspy[1]
                ELSE ToLower(field.Name)
        required == tagged /\ HasRequired(field.dspy, 2)
        description == IF field.description # "" THEN field.description
                       ELSE field.Name
        prefix == IF field.prefix # "" THEN Str(field.prefix)
                  ELSE IF ~isInput THEN <<name, ":">>
                  ELSE Str("")
    IN  [Name |-> name,
         GoFieldName |-> field.Name,
         Required |-> required,
         Description |-> description,
         Prefix |-> prefix,
         Type |-> type,
         GoType |-> field.Type,
         Item |-> IF type = FieldTypeArray THEN parseArrayElement(field.Type)
                  ELSE NilItem,
         Properties |-> IF type = FieldTypeObject THEN parseObjectProperties(field.Type)
                        ELSE NilProps]

\* the loop of parseStructFields, typed_signature.go 78-86
RECURSIVE parseStructFieldsLoop(_, _, _, _)
parseStructFieldsLoop(fs, i, isInput, fields) ==
    IF i > Len(fs) THEN fields
    ELSE IF ~IsExported(fs[i]) THEN parseStructFieldsLoop(fs, i + 1, isInput, fields)
    ELSE parseStructFieldsLoop(fs, i + 1, isInput,
            Append(fields, parseFieldMetadataRecursive(fs[i], isInput)))

\* parseStructFields, typed_signature.go 72-89
parseStructFields(t, isInput) ==
    IF t = NilType \/ t.kind # "struct" THEN <<>>
    ELSE parseStructFieldsLoop(t.fields, 1, isInput, <<>>)

\* createTypedSignatureImpl, typed_signature.go 53-64
createTypedSignatureImpl(ti, to, inputType, outputType) ==
    [TInput |-> ti, TOutput |-> to,
     inputType |-> inputType, outputType |-> outputType,
     metadata |-> [Inputs |-> parseStructFields(inputType, TRUE),
                   Outputs |-> parseStructFields(outputType, FALSE),
                   Instruction |-> ""]]

\* reflect.TypeOf of the zero value of a type parameter: nil for an interface type
ReflectTypeOfZero(t) == IF t.kind = "interface" THEN NilType ELSE t

\* getReflectTypes, typed_signature.go 316-332 (one of the two types)
getReflectType(t) ==
    LET rt == ReflectTypeOfZero(t)
    IN  IF rt # NilType /\ rt.kind = "ptr" THEN Elem(rt) ELSE rt

\* NewTypedSignature, typed_signature.go 335-338
NewTypedSignature(ti, to) ==
    createTypedSignatureImpl(ti, to, getReflectType(ti), getReflectType(to))

\* ToLegacySignature's conversion of one field, typed_signature.go 400-406
LegacyField(field) ==
    [Name |-> field.Name, Description |-> field.Description, Prefix |-> Str(""),
     Type |-> field.Type, Items |-> NilItem, Properties |-> NilProps]

\* ToLegacySignature, typed_signature.go 396-426
ToLegacySignature(t) ==
    [Inputs |-> [i \in 1..Len(t.metadata.Inputs) |-> LegacyField(t.metadata.Inputs[i])],
     Outputs |-> [i \in 1..Len(t.metadata.Outputs) |-> LegacyField(t.metadata.Outputs[i])],
     Instruction |-> t.metadata.Instruction]

\* FromLegacySignature's conversion of one field, typed_signature.go 505-513
UpgradedField(f) ==
    [Name |-> f.Name, GoFieldName |-> f.Name, Required |-> FALSE,
     Description |-> f.Description, Prefix |-> f.Prefix, Type |-> f.Type,
     GoType |-> Prim("string"), Item |-> NilItem, Properties |-> NilProps]

\* FromLegacySignature, typed_signature.go 498-534
FromLegacySignature(sig) ==
    [TInput |-> MapType, TOutput |-> MapType,
     inputType |-> MapType, outputType |-> MapType,
     metadata |-> [Inputs |-> [i \in 1..Len(sig.Inputs) |-> UpgradedField(sig.Inputs[i])],
                   Outputs |-> [i \in 1..Len(sig.Outputs) |-> UpgradedField(sig.Outputs[i])],
                   Instruction |-> sig.Instruction]]

(***************************************************************************)
(* reflect.Value: the run-time values, and the validator.                  *)
(***************************************************************************)
VString(x) == [k |-> "string", s |-> x]
VNilMap == [k |-> "map", isnil |-> TRUE, len |-> 0]
VMap(n) == [k |-> "map", isnil |-> FALSE, len |-> n]
VNilSlice == [k |-> "slice", isnil |-> TRUE, elems |-> <<>>]
VSlice(es) == [k |-> "slice", isnil |-> FALSE, elems |-> es]
VNilPtr == [k |-> "ptr", isnil |-> TRUE]
VPtr(v) == [k |-> "ptr", isnil |-> FALSE, elem |-> v]
VStruct(f) == [k |-> "struct", f |-> f]
VNilInterface == [k |-> "nilinterface"]
VInvalid == [k |-> "invalid"]

\* reflect.Value.IsZero
RECURSIVE IsZero(_)
IsZero(v) ==
    CASE v.k = "string" -> v.s = ""
      [] v.k \in {"map", "slice", "ptr"} -> v.isnil
      [] v.k = "struct" -> \A n \in DOMAIN v.f : IsZero(v.f[n])
      [] OTHER -> TRUE

\* reflect.Value.FieldByName
FieldByName(v, name) == IF name \in DOMAIN v.f THEN v.f[name] ELSE VInvalid

\* reflect.Value.IsValid
IsValid(v) == v # VInvalid

\* reflect.Value.Elem of a pointer
ValueElem(v) == IF v.isnil THEN VInvalid ELSE v.elem

Ok == [kind |-> "ok"]
ErrNil(fieldType) == [kind |-> "EmptyValue", path |-> fieldType]
ErrNotStruct(fieldType) == [kind |-> "NotAStruct", path |-> fieldType]
ErrRequired(fieldType, name) ==
    [kind |-> "RequiredFieldMissing", path |-> fieldType, name |-> name]

\* the orders a range over a Go map may visit its entries in
Orderings(S) ==
    {o \in [1..Cardinality(S) -> S] : \A i, j \in 1..Cardinality(S) : i # j => o[i] # o[j]}

\* flatten, typed_signature.go 276-282: the lists it may return
flatten(m) ==
    IF m.isnil THEN {<<>>}
    ELSE {[i \in 1..Len(o) |-> m.entries[o[i]]] : o \in Orderings(DOMAIN m.entries)}

RECURSIVE validateStruct(_, _, _)
RECURSIVE validateStructLoop(_, _, _, _)

\* validateStructLoop had it not descended into Object fields
validateStructLoopShallow(v, expected, i, fieldType) ==
    IF i > Len(expected) THEN {Ok}
    ELSE LET expectedField == expected[i]
             field == FieldByName(v, expectedField.GoFieldName)
             rest == validateStructLoop(v, expected, i + 1, fieldType)
         IN  IF ~expectedField.Required THEN rest
             ELSE IF ~IsValid(field) \/ IsZero(field)
             THEN {ErrRequired(fieldType, expectedField.Name)}
             ELSE rest

\* validateStructLoop had it checked the fields that are not required too
validateStructLoopAllFields(v, expected, i, fieldType) ==
    IF i > Len(expected) THEN {Ok}
    ELSE LET expectedField == expected[i]
             field == FieldByName(v, expectedField.GoFieldName)
             rest == validateStructLoop(v, expected, i + 1, fieldType)
         IN  IF ~IsValid(field) \/ IsZero(field)
             THEN {ErrRequired(fieldType, expectedField.Name)}
             ELSE IF expectedField.Type = FieldTypeObject
             THEN LET errs == UNION {validateStruct(field, fl,
                                        Append(fieldType, expectedField.Name)) :
                                     fl \in flatten(expectedField.Properties)}
                  IN  (errs \ {Ok}) \cup (IF Ok \in errs THEN rest ELSE {})
             ELSE rest

\* the loop of validateStruct, typed_signature.go 253-273: the errors it may return
validateStructLoop(v, expected, i, fieldType) ==
    IF i > Len(expected) THEN {Ok}
    ELSE LET expectedField == expected[i]
             field == FieldByName(v, expectedField.GoFieldName)
             rest == validateStructLoop(v, expected, i + 1, fieldType)
         IN  IF ~expectedField.Required THEN rest
             ELSE IF ~IsValid(field) \/ IsZero(field)
             THEN {ErrRequired(fieldType, expectedField.Name)}
             ELSE IF expectedField.Type = FieldTypeObject
             THEN LET errs == UNION {validateStruct(field, fl,
                                        Append(fieldType, expectedField.Name)) :
                                     fl \in flatten(expectedField.Properties)}
                  IN  (errs \ {Ok}) \cup (IF Ok \in errs THEN rest ELSE {})
             ELSE rest

\* validateStruct, typed_signature.go 239-274: the errors it may return
validateStruct(value, expected, fieldType) ==
    IF value = VNilInterface THEN {ErrNil(fieldType)}
    ELSE LET v == IF value.k = "ptr" THEN ValueElem(value) ELSE value
         IN  IF v.k # "struct" THEN {ErrNotStruct(fieldType)}
             ELSE validateStructLoop(v, expected, 1, fieldType)

\* ValidateInput, typed_signature.go 384-386
ValidateInput(t, input) == validateStruct(input, t.metadata.Inputs, <<"input">>)

\* ValidateOutput, typed_signature.go 388-390
ValidateOutput(t, output) == validateStruct(output, t.metadata.Outputs, <<"output">>)

\* the values of a declared type
RECURSIVE ValuesOf(_)
RECURSIVE StructValues(_, _)
ValuesOf(t) ==
    CASE t.kind = "string" -> {VString(""), VString("x")}
      [] t.kind = "map" -> {VNilMap, VMap(0), VMap(1)}
      [] t.kind = "slice" ->
            {VNilSlice, VSlice(<<>>)} \cup {VSlice(<<e>>) : e \in ValuesOf(Elem(t))}
      [] t.kind = "ptr" -> {VNilPtr} \cup {VPtr(e) : e \in ValuesOf(Elem(t))}
      [] t.kind = "struct" -> {VStruct(f) : f \in StructValues(t.fields, 1)}
      [] t.kind = "interface" -> {VNilInterface, VString("x")}
      [] OTHER -> {}

\* the field assignments of a struct value, from field i on
StructValues(fields, i) ==
    IF i > Len(fields) THEN {<<>>}
    ELSE {MapPut(f, fields[i].Name, x) :
            f \in StructValues(fields, i + 1), x \in ValuesOf(fields[i].Type)}

(***************************************************************************)
(* The declared types the introspector is run on.                          *)
(***************************************************************************)
\* strictly increasing index lists of length 1..f over 1..n
IncSeqs(n, f) ==
    {s \in UNION {[1..k -> 1..n] : k \in 1..f} :
        \A i \in 1..(Len(s) - 1) : s[i] < s[i + 1]}

\* the struct types named n whose fields take their names (in order) from names,
\* their types from ftypes and their tags from tags
StructsOver(n, names, ftypes, tags, f) ==
    UNION {
        {Struct(n, [i \in 1..Len(idx) |-> FieldDecl(names[idx[i]], c[i][1], c[i][2])]) :
            c \in [1..Len(idx) -> ftypes \X tags]} :
        idx \in IncSeqs(Len(names), f)}

Required == [dspy |-> <<"", "required">>, description |-> "", prefix |-> ""]
NamedX == [dspy |-> <<"x">>, description |-> "", prefix |-> ""]
NamedXRequired == [dspy |-> <<"x", " required">>, description |-> "", prefix |-> ""]
Prefixed == [dspy |-> <<>>, description |-> "", prefix |-> "p>"]
Described == [dspy |-> <<>>, description |-> "about", prefix |-> ""]

DescribeLeafTypes ==
    {Prim("string"), Prim("int64"), Prim("bool"), Prim("float64"), Prim("interface"),
     Slice(Prim("uint8")), Slice(Prim("string")), Ptr(Slice(Prim("string"))),
     Ptr(Prim("string")), Ptr(Ptr(Prim("string"))), ArrayOf(Prim("int")), MapType}

DescribeTags == {NoTag, Required, NamedX, NamedXRequired, Prefixed, Described}

\* the ways a struct type is used as a field's type
Wrappings(s) == {s, Ptr(s), Slice(s), Ptr(Slice(s))}

\* depth 1: one field of each kind and tag, or up to MaxFields string fields whose
\* names may collide; depth 2: one field that wraps a depth-1 struct; deeper: one
\* field that holds the struct below, or a sequence of it
RECURSIVE DescribeStructs(_)
DescribeStructs(d) ==
    IF d = 1
    THEN StructsOver("Inner1", <<"Name">>, DescribeLeafTypes, DescribeTags, 1)
         \cup StructsOver("Inner1", <<"Name", "NAME", "Age", "secret">>,
                          {Prim("string")}, {NoTag, NamedX}, MaxFields)
    ELSE IF d = 2
    THEN UNION {StructsOver("Inner2", <<"Name">>, Wrappings(s), {NoTag, Prefixed}, 1) :
                s \in DescribeStructs(1)}
    ELSE UNION {StructsOver("Inner3", <<"Name">>, {s, Slice(s)}, {NoTag}, 1) :
                s \in DescribeStructs(d - 1)}

DescribeTypes == UNION {DescribeStructs(d) : d \in 1..MaxDepth}

(***************************************************************************)
(* The introspector and the legacy bridge as operations.                   *)
(***************************************************************************)
NoUntyped ==
    /\ schema = None /\ notation = None /\ parsed = None
    /\ sigs = <<>> /\ arrays = <<>>

Idle ==
    /\ metadata = None
    /\ cache = <<>> /\ heap = <<>> /\ stores = <<>> /\ callers = <<>>
    /\ NoUntyped

InitDescribe ==
    /\ \E t \in DescribeTypes : tin = t /\ tout = t
    /\ ts = None /\ legacy = None /\ upgraded = None
    /\ val = None /\ result = None
    /\ Idle

\* NewTypedSignature[TInput, TOutput]()
Describe ==
    /\ ts = None
    /\ ts' = NewTypedSignature(tin, tout)
    /\ UNCHANGED <<untyped, tin, tout, legacy, upgraded, val, result, metadata, cache, heap, stores, callers>>

\* ts.ToLegacySignature()
Downgrade ==
    /\ ts # None /\ legacy = None
    /\ legacy' = ToLegacySignature(ts)
    /\ UNCHANGED <<untyped, tin, tout, ts, upgraded, val, result, metadata, cache, heap, stores, callers>>

\* FromLegacySignature(legacy)
Upgrade ==
    /\ legacy # None /\ upgraded = None
    /\ upgraded' = FromLegacySignature(legacy)
    /\ UNCHANGED <<untyped, tin, tout, ts, legacy, val, result, metadata, cache, heap, stores, callers>>

NextDescribe == Describe \/ Downgrade \/ Upgrade

SpecDescribe == InitDescribe /\ [][NextDescribe]_vars

(***************************************************************************)
(* The validator as operations: a declared type, one of its values.        *)
(***************************************************************************)
\* the struct types named n whose first k <= f fields are declared in order
PrefixStructs(n, names, ftypes, tags, f) ==
    UNION {
        {Struct(n, [i \in 1..k |-> FieldDecl(names[i], c[i][1], c[i][2])]) :
            c \in [1..k -> ftypes \X tags]} :
        k \in 1..f}

ValidateWrappings(s) == {s, Ptr(s), Slice(s)}

\* depth 1: one field of each checked kind, or up to MaxFields string fields;
\* depth 2: a nested field, alone or after a string field; deeper: the chain of
\* required Object fields grows by one
RECURSIVE ValidateStructs(_)
ValidateStructs(d) ==
    IF d = 1
    THEN StructsOver("Inner1", <<"A">>,
                     {MapType, Ptr(MapType), Slice(Prim("string"))}, {NoTag, Required}, 1)
         \cup PrefixStructs("Inner1", <<"A", "B", "C", "D">>,
                            {Prim("string")}, {NoTag, Required}, MaxFields)
    ELSE IF d = 2
    THEN UNION {StructsOver("Inner2", <<"B">>, ValidateWrappings(s), {NoTag, Required}, 1)
                \cup {Struct("Inner2", <<FieldDecl("A", Prim("string"), g), b>>) :
                        g \in {NoTag, Required},
                        b \in {FieldDecl("B", s, h) : h \in {NoTag, Required}}} :
                s \in ValidateStructs(1)}
    ELSE UNION {{Struct("Inner3", <<FieldDecl("B", Ptr(s), Required)>>),
                 Struct("Inner3", <<FieldDecl("A", Prim("string"), Required),
                                    FieldDecl("B", s, Required)>>)} :
                s \in ValidateStructs(d - 1)}

ValidateTypes ==
    UNION {ValidateStructs(d) : d \in 1..MaxDepth}
    \cup {Prim("interface"), MapType}

InitValidate ==
    /\ \E t \in ValidateTypes :
        /\ tin = t /\ tout = t
        /\ val \in ValuesOf(t)
    /\ ts = None /\ legacy = None /\ upgraded = None
    /\ result = None
    /\ Idle

\* ts.ValidateInput(val)
DoValidateInput ==
    /\ ts # None /\ result = None
    /\ \E e \in ValidateInput(ts, val) : result' = [side |-> "input", err |-> e]
    /\ UNCHANGED <<untyped, tin, tout, ts, legacy, upgraded, val, metadata, cache, heap, stores, callers>>

\* ts.ValidateOutput(val)
DoValidateOutput ==
    /\ ts # None /\ result = None
    /\ \E e \in ValidateOutput(ts, val) : result' = [side |-> "output", err |-> e]
    /\ UNCHANGED <<untyped, tin, tout, ts, legacy, upgraded, val, metadata, cache, heap, stores, callers>>

NextValidate == Describe \/ DoValidateInput \/ DoValidateOutput

SpecValidate == InitValidate /\ [][NextValidate]_vars

(***************************************************************************)
(* The schema synthesizer (utils): a declared type to a TypeSchema.        *)
(***************************************************************************)
TypeString == "STRING"
TypeInteger == "INTEGER"
TypeNumber == "NUMBER"
TypeBoolean == "BOOLEAN"
TypeObject == "OBJECT"
TypeArray == "ARRAY"

\* a struct field declaration with a json tag, kept as the list
\* strings.Split(tag, ",") yields: <<"">> for no tag
JsonFieldDecl(n, t, json) ==
    [Name |-> n, Type |-> t, dspy |-> <<>>, description |-> "", prefix |-> "",
     json |-> json]

\* a TypeSchema: the fields buildSchemaFromType sets
TypeSchema(type, properties, items, required) ==
    [Type |-> type, Properties |-> properties, Items |-> items, Required |-> required]

\* baseType, part_000 118-123: every pointer is taken off
RECURSIVE baseType(_)
baseType(t) == IF t.kind = "ptr" THEN baseType(Elem(t)) ELSE t

\* the field name of part_000 73-78
JsonFieldName(f) == IF f.json[1] = "" THEN f.Name ELSE f.json[1]

\* isOmitempty of part_000 82-88
IsOmitempty(f) == \E i \in 2..Len(f.json) : f.json[i] = "omitempty"

RECURSIVE buildSchemaFromType(_)
RECURSIVE buildSchemaFields(_, _, _)

\* buildSchemaFields had it required the fields marked omitempty and no others
buildSchemaFieldsInverted(fields, i, s) ==
    IF i > Len(fields) THEN s
    ELSE LET f == fields[i]
             fieldName == JsonFieldName(f)
             fieldSchema == buildSchemaFromType(baseType(f.Type))
             withProp == [s EXCEPT !.Properties =
                            PropsMap(MapPut(s.Properties.entries, fieldName, fieldSchema))]
         IN  IF ~IsExported(f) THEN buildSchemaFields(fields, i + 1, s)
             ELSE buildSchemaFields(fields, i + 1,
                    IF IsOmitempty(f)
                    THEN [withProp EXCEPT !.Required = Append(s.Required, fieldName)]
                    ELSE withProp)

\* the loop over the fields of a struct, part_000 67-94
buildSchemaFields(fields, i, s) ==
    IF i > Len(fields) THEN s
    ELSE LET f == fields[i]
             fieldName == JsonFieldName(f)
             fieldSchema == buildSchemaFromType(baseType(f.Type))
             withProp == [s EXCEPT !.Properties =
                            PropsMap(MapPut(s.Properties.entries, fieldName, fieldSchema))]
         IN  IF ~IsExported(f) THEN buildSchemaFields(fields, i + 1, s)
             ELSE buildSchemaFields(fields, i + 1,
                    IF ~IsOmitempty(f)
                    THEN [withProp EXCEPT !.Required = Append(s.Required, fieldName)]
                    ELSE withProp)

\* buildSchemaFromType, part_000 59-117
buildSchemaFromType(t) ==
    CASE t.kind = "struct" ->
            buildSchemaFields(t.fields, 1,
                TypeSchema(TypeObject, PropsMap(<<>>), NilItem, <<>>))
      [] t.kind \in {"slice", "array"} ->
            TypeSchema(TypeArray, NilProps,
                       ItemRef(buildSchemaFromType(baseType(Elem(t)))), <<>>)
      [] t.kind = "string" -> TypeSchema(TypeString, NilProps, NilItem, <<>>)
      [] t.kind = "bool" -> TypeSchema(TypeBoolean, NilProps, NilItem, <<>>)
      [] t.kind \in IntKinds -> TypeSchema(TypeInteger, NilProps, NilItem, <<>>)
      [] t.kind \in {"float32", "float64"} -> TypeSchema(TypeNumber, NilProps, NilItem, <<>>)
      [] OTHER -> TypeSchema(TypeString, NilProps, NilItem, <<>>)

\* BuildSchemaFromStruct, part_000 55-57
BuildSchemaFromStruct(t) == buildSchemaFromType(t)

\* the json tags of the model: none, a name, omitempty with and without a name,
\* an option that is not omitempty, and omitempty after a space
JsonTags ==
    {<<"">>, <<"x">>, <<"", "omitempty">>, <<"x", "omitempty">>,
     <<"x", "string">>, <<"x", " omitempty">>}

\* the kinds of field the synthesizer and the introspector classify
SchemaLeafTypes ==
    {Prim("string"), Prim("bool"), Prim("int"), Prim("int64"), Prim("float64"),
     Prim("uint8"), Slice(Prim("uint8")), Slice(Prim("string")),
     ArrayOf(Prim("int")), MapType}

\* a type, and one and two levels of pointer to it
Pointered(t) == {t, Ptr(t), Ptr(Ptr(t))}

\* the struct types named n with the first k <= f of the named fields declared
JsonStructs(n, names, ftypes, tags, f) ==
    UNION {
        {Struct(n, [i \in 1..k |-> JsonFieldDecl(names[i], c[i][1], c[i][2])]) :
            c \in [1..k -> ftypes \X tags]} :
        k \in 1..f}

\* depth 1: one field of each kind, pointer wrapping and tag, or up to MaxFields
\* string fields; depth 2: a string field beside one that holds a depth-1 struct,
\* a pointer to it or a sequence of it; deeper: the same around the struct below
RECURSIVE SchemaStructs(_)
SchemaStructs(d) ==
    IF d = 1
    THEN JsonStructs("Inner1", <<"Name">>,
                     UNION {Pointered(t) : t \in SchemaLeafTypes}, {<<"">>}, 1)
         \cup JsonStructs("Inner1", <<"A", "B", "C", "D", "secret">>,
                          {Prim("string")}, JsonTags, MaxFields)
    ELSE IF d = 2
    THEN UNION {
            {Struct("Inner2", <<JsonFieldDecl("A", Prim("string"), g),
                                JsonFieldDecl("B", w, <<"">>)>>) :
                w \in {s, Ptr(s), Slice(s)}, g \in {<<"">>, <<"", "omitempty">>}} :
            s \in JsonStructs("Inner1", <<"A", "B", "C", "D">>, {Prim("string")},
                              {<<"">>, <<"", "omitempty">>}, MaxFields)}
    ELSE UNION {
            {Struct("Inner3", <<JsonFieldDecl("A", Prim("string"), <<"", "omitempty">>),
                                JsonFieldDecl("B", w, <<"">>)>>) :
                w \in {Ptr(s), Slice(s)}} :
            s \in SchemaStructs(d - 1)}

SchemaTypes == UNION {SchemaStructs(d) : d \in 1..MaxDepth}

InitSchema ==
    /\ \E t \in SchemaTypes : tin = t /\ tout = t
    /\ ts = None /\ legacy = None /\ upgraded = None
    /\ val = None /\ result = None /\ metadata = None
    /\ cache = <<>> /\ heap = <<>> /\ stores = <<>> /\ callers = <<>>
    /\ NoUntyped

\* utils.BuildSchemaFromStruct(v) for a value v of type tin
BuildSchema ==
    /\ schema = None
    /\ schema' = BuildSchemaFromStruct(tin)
    /\ UNCHANGED <<tin, tout, ts, legacy, upgraded, val, result, metadata, cache, heap,
                   stores, callers, notation, parsed, sigs, arrays>>

NextSchema == BuildSchema \/ Describe

SpecSchema == InitSchema /\ [][NextSchema]_vars

(***************************************************************************)
(* The shorthand parser and the renderer (signature.go). A Go string that  *)
(* is parsed is the list of its characters.                                *)
(***************************************************************************)
\* s holds sep at position i
HasAt(s, sep, i) ==
    /\ i + Len(sep) - 1 <= Len(s)
    /\ \A j \in 1..Len(sep) : s[i + j - 1] = sep[j]

\* strings.Split(s, sep) for a non-empty sep: the pieces between the occurrences
\* of sep, found left to right; cur is the piece being read
RECURSIVE Split(_, _, _, _)
Split(s, sep, i, cur) ==
    IF i > Len(s) THEN <<cur>>
    ELSE IF HasAt(s, sep, i) THEN <<cur>> \o Split(s, sep, i + Len(sep), <<>>)
    ELSE Split(s, sep, i + 1, Append(cur, s[i]))

\* strings.TrimSpace of a list of characters
RECURSIVE TrimSpaceChars(_)
TrimSpaceChars(s) ==
    IF s = <<>> THEN s
    ELSE IF Head(s) = " " THEN TrimSpaceChars(Tail(s))
    ELSE IF s[Len(s)] = " " THEN TrimSpaceChars(SubSeq(s, 1, Len(s) - 1))
    ELSE s

\* Field{Name: fieldStr}: every other member holds its zero value
ParsedField(fieldStr) ==
    [Name |-> fieldStr, Description |-> "", Prefix |-> Str(""), Type |-> "",
     Items |-> NilItem, Properties |-> NilProps]

\* parseInputFields, signature.go 195-203
parseInputFields(fieldsStr) ==
    LET fieldStrs == Split(fieldsStr, <<",">>, 1, <<>>)
    IN  [i \in 1..Len(fieldStrs) |-> ParsedField(TrimSpaceChars(fieldStrs[i]))]

\* parseOutputFields, signature.go 205-213
parseOutputFields(fieldsStr) ==
    LET fieldStrs == Split(fieldsStr, <<",">>, 1, <<>>)
    IN  [i \in 1..Len(fieldStrs) |-> ParsedField(TrimSpaceChars(fieldStrs[i]))]

\* NewSignature, signature.go 144-149
NewSignature(inputs, outputs) ==
    [Inputs |-> inputs, Outputs |-> outputs, Instruction |-> ""]

\* ParseSignature, signature.go 183-193
ParseSignature(signatureStr) ==
    LET parts == Split(signatureStr, <<"-", ">">>, 1, <<>>)
    IN  IF Len(parts) # 2
        THEN [sig |-> NewSignature(<<>>, <<>>), err |-> "invalid signature format"]
        ELSE [sig |-> NewSignature(parseInputFields(TrimSpaceChars(parts[1])),
                                   parseOutputFields(TrimSpaceChars(parts[2]))),
              err |-> "nil"]

\* one line of Signature.String for a field, signature.go 162-166
FieldLine(field) ==
    [name |-> field.Name,
     typeStr |-> IF field.Type # FieldTypeText THEN <<" [", field.Type, "]">> ELSE <<>>,
     description |-> field.Description]

\* Signature.String, signature.go 158-180: the lines written under Inputs and Outputs
String(sig) ==
    [Inputs |-> [i \in 1..Len(sig.Inputs) |-> FieldLine(sig.Inputs[i])],
     Outputs |-> [i \in 1..Len(sig.Outputs) |-> FieldLine(sig.Outputs[i])]]

Chars == {"a", " ", ",", "-", ">"}

\* the strings of at most MaxNotation characters
Notations == UNION {[1..n -> Chars] : n \in 0..MaxNotation}

InitParse ==
    /\ notation \in Notations
    /\ parsed = None /\ schema = None /\ sigs = <<>> /\ arrays = <<>>
    /\ tin = None /\ tout = None /\ ts = None
    /\ legacy = None /\ upgraded = None
    /\ val = None /\ result = None /\ metadata = None
    /\ cache = <<>> /\ heap = <<>> /\ stores = <<>> /\ callers = <<>>

\* ParseSignature(notation)
Parse ==
    /\ parsed = None
    /\ parsed' = ParseSignature(notation)
    /\ UNCHANGED <<tin, tout, ts, legacy, upgraded, val, result, metadata, cache, heap,
                   stores, callers, schema, notation, sigs, arrays>>

\* sig.String() on the signature parsed
Render ==
    /\ parsed # None /\ parsed.err = "nil"
    /\ "text" \notin DOMAIN parsed
    /\ parsed' = [sig |-> parsed.sig, err |-> parsed.err, text |-> String(parsed.sig)]
    /\ UNCHANGED <<tin, tout, ts, legacy, upgraded, val, result, metadata, cache, heap,
                   stores, callers, schema, notation, sigs, arrays>>

NextParse == Parse \/ Render

SpecParse == InitParse /\ [][NextParse]_vars

(***************************************************************************)
(* Untyped signatures as Go values (signature.go): a slice is a header     *)
(* [arr, len, cap] over a backing array; arr = 0 is the nil slice.         *)
(***************************************************************************)
\* Field{Name: name, Prefix: prefix, Description: description}
FieldLiteral(name, prefix, description) ==
    [Name |-> name, Description |-> description, Prefix |-> Str(prefix), Type |-> "",
     Items |-> NilItem, Properties |-> NilProps]

\* the zero Field an array cell holds before it is written
ZeroField == FieldLiteral("", "", "")

NilSlice == [arr |-> 0, len |-> 0, cap |-> 0]

\* the elements of a slice
Elems(sl, arrs) == [k \in 1..sl.len |-> arrs[sl.arr][k]]

\* a new backing array of n cells that starts with the elements es
NewArray(es, n) == [k \in 1..n |-> IF k <= Len(es) THEN es[k] ELSE ZeroField]

\* the capacity append grows a full slice to, for the lengths of the model
GrownCap(cap, newLen) == IF newLen > 2 * cap THEN newLen ELSE 2 * cap

\* append(sl, es...): in place when the capacity allows, else into a new array
append(sl, es, arrs) ==
    IF es = <<>> THEN [slice |-> sl, arrays |-> arrs]
    ELSE IF sl.len + Len(es) <= sl.cap
    THEN [slice |-> [arr |-> sl.arr, len |-> sl.len + Len(es), cap |-> sl.cap],
          arrays |-> [arrs EXCEPT ![sl.arr] =
                        [k \in 1..sl.cap |->
                            IF k > sl.len /\ k <= sl.len + Len(es) THEN es[k - sl.len]
                            ELSE arrs[sl.arr][k]]]]
    ELSE LET n == GrownCap(sl.cap, sl.len + Len(es))
         IN  [slice |-> [arr |-> Len(arrs) + 1, len |-> sl.len + Len(es), cap |-> n],
              arrays |-> Append(arrs, NewArray(Elems(sl, arrs) \o es, n))]

\* a slice literal: a new array that its elements fill
SliceLiteral(es, arrs) ==
    IF es = <<>> THEN [slice |-> NilSlice, arrays |-> arrs]
    ELSE [slice |-> [arr |-> Len(arrs) + 1, len |-> Len(es), cap |-> Len(es)],
          arrays |-> Append(arrs, NewArray(es, Len(es)))]

\* AppendInput had it put the new field in front of the inputs
AppendInputInFront(s, arrs, name, prefix, description) ==
    LET newInput == FieldLiteral(name, prefix, description)
        r == SliceLiteral(<<newInput>> \o Elems(s.Inputs, arrs), arrs)
    IN  [sig |-> [s EXCEPT !.Inputs = r.slice], arrays |-> r.arrays]

\* Signature.AppendInput, signature.go 221-231: s is the receiver's copy
AppendInput(s, arrs, name, prefix, description) ==
    LET newInput == FieldLiteral(name, prefix, description)
        r == append(s.Inputs, <<newInput>>, arrs)
    IN  [sig |-> [s EXCEPT !.Inputs = r.slice], arrays |-> r.arrays]

\* Signature.PrependOutput, signature.go 234-244
PrependOutput(s, arrs, name, prefix, description) ==
    LET newOutput == FieldLiteral(name, prefix, description)
        lit == SliceLiteral(<<newOutput>>, arrs)
        r == append(lit.slice, Elems(s.Outputs, arrs), lit.arrays)
    IN  [sig |-> [s EXCEPT !.Outputs = r.slice], arrays |-> r.arrays]

FieldNames == {"x", "y"}
InstructionsOf == {"", "answer briefly"}

\* a signature a caller holds: the Signature value, the call that returned it
\* (op, from, field) and the inputs and outputs it had when it was returned
HeldSig(sig, arrs, op, from, field) ==
    [sig |-> sig, op |-> op, from |-> from, field |-> field,
     Inputs |-> Elems(sig.Inputs, arrs), Outputs |-> Elems(sig.Outputs, arrs)]

\* NewSignature over slice literals of n inputs and one output, and WithInstruction
InitSigs ==
    /\ \E n \in 0..2, instruction \in InstructionsOf :
        LET ins == SliceLiteral([k \in 1..n |-> FieldLiteral(<<"a", "b">>[k], "", "")], <<>>)
            outs == SliceLiteral(<<FieldLiteral("c", "", "")>>, ins.arrays)
            sig == [Inputs |-> ins.slice, Outputs |-> outs.slice,
                    Instruction |-> instruction]
        IN  /\ arrays = outs.arrays
            /\ sigs = <<HeldSig(sig, outs.arrays, "NewSignature", 0, ZeroField)>>
    /\ parsed = None /\ schema = None /\ notation = None
    /\ tin = None /\ tout = None /\ ts = None
    /\ legacy = None /\ upgraded = None
    /\ val = None /\ result = None /\ metadata = None
    /\ cache = <<>> /\ heap = <<>> /\ stores = <<>> /\ callers = <<>>

\* sigs[i].AppendInput(name, "", name)
CallAppendInput(i) ==
    /\ i <= Len(sigs) /\ Len(sigs) < MaxSigs
    /\ \E name \in FieldNames :
        LET r == AppendInput(sigs[i].sig, arrays, name, "", name)
        IN  /\ arrays' = r.arrays
            /\ sigs' = Append(sigs, HeldSig(r.sig, r.arrays, "AppendInput", i,
                                            FieldLiteral(name, "", name)))
    /\ UNCHANGED <<tin, tout, ts, legacy, upgraded, val, result, metadata, cache, heap,
                   stores, callers, schema, notation, parsed>>

\* sigs[i].PrependOutput(name, "", name)
CallPrependOutput(i) ==
    /\ i <= Len(sigs) /\ Len(sigs) < MaxSigs
    /\ \E name \in FieldNames :
        LET r == PrependOutput(sigs[i].sig, arrays, name, "", name)
        IN  /\ arrays' = r.arrays
            /\ sigs' = Append(sigs, HeldSig(r.sig, r.arrays, "PrependOutput", i,
                                            FieldLiteral(name, "", name)))
    /\ UNCHANGED <<tin, tout, ts, legacy, upgraded, val, result, metadata, cache, heap,
                   stores, callers, schema, notation, parsed>>

NextSigs == \E i \in 1..MaxSigs : CallAppendInput(i) \/ CallPrependOutput(i)

SpecSigs == InitSigs /\ [][NextSigs]_vars

(***************************************************************************)
(* The signature cache: goroutines inside NewTypedSignatureCached, and the *)
(* methods called on the signatures it returned.                           *)
(***************************************************************************)
QuestionType == Struct("Question", <<FieldDecl("Question", Prim("string"), Required)>>)
AnswerType ==
    Struct("Answer", <<FieldDecl("Answer", Prim("string"), NoTag),
                       FieldDecl("Name", Slice(Prim("int64")), NoTag)>>)

\* the [TInput, TOutput] instantiations the goroutines call with
TypePairs ==
    {<<QuestionType, AnswerType>>, <<Ptr(QuestionType), AnswerType>>,
     <<AnswerType, QuestionType>>}

Instructions == {"answer briefly"}

\* signatureCacheKey, typed_signature.go 344-358
signatureCacheKey(ti, to) ==
    [inputType |-> getReflectType(ti), outputType |-> getReflectType(to)]

\* the type assertion cached.(TypedSignature[TInput, TOutput]) succeeds
Implements(impl, ti, to) == impl.TInput = ti /\ impl.TOutput = to

\* an instance allocated at address a: the Item descriptors and Properties maps
\* its field lists point to are allocated with it, which items records
Allocated(impl, a) ==
    [f \in (DOMAIN impl) \cup {"items"} |-> IF f = "items" THEN a ELSE impl[f]]

\* WithInstruction, typed_signature.go 428-445: the field lists are copied element
\* by element, each element keeping the Item pointer and Properties map it holds
WithInstruction(t, instruction) ==
    [t EXCEPT !.metadata = [Instruction |-> instruction,
                            Inputs |-> [i \in 1..Len(t.metadata.Inputs) |-> t.metadata.Inputs[i]],
                            Outputs |-> [i \in 1..Len(t.metadata.Outputs) |-> t.metadata.Outputs[i]]]]

\* GetFieldMetadata, typed_signature.go 392-394
GetFieldMetadata(t) == t.metadata

Callers == 1..NumCallers

Panicked == \E c \in Callers : callers[c].pc = "panicked"

\* the signatures callers hold: returned by get-or-create or by WithInstruction
Held ==
    {callers[c].ret : c \in {x \in Callers : callers[x].pc = "done"}}
    \cup {a \in DOMAIN heap : a[1] = 0}

Init ==
    /\ tin = None /\ tout = None /\ ts = None
    /\ legacy = None /\ upgraded = None
    /\ val = None /\ result = None /\ metadata = None
    /\ cache = <<>> /\ heap = <<>> /\ stores = <<>>
    /\ callers = [c \in Callers |-> [pc |-> "idle"]]
    /\ NoUntyped

\* what the last method call returned is kept until the next step
Forget == metadata' = None /\ legacy' = None /\ val' = None /\ result' = None

\* a caller in state pc of its call
At(me, pc) ==
    [pc |-> pc, TInput |-> me.TInput, TOutput |-> me.TOutput, key |-> me.key]

\* a caller that returned the instance at ret; built tells whether it built one
Returned(me, built, ret) ==
    [pc |-> "done", TInput |-> me.TInput, TOutput |-> me.TOutput, key |-> me.key,
     built |-> built, ret |-> ret]

\* a goroutine enters NewTypedSignatureCached[TInput, TOutput] (lines 351-358)
Call(c) ==
    /\ ~Panicked
    /\ callers[c].pc = "idle"
    /\ \E p \in TypePairs :
        callers' = [callers EXCEPT ![c] =
            [pc |-> "load", TInput |-> p[1], TOutput |-> p[2],
             key |-> signatureCacheKey(p[1], p[2])]]
    /\ Forget
    /\ UNCHANGED <<untyped, tin, tout, ts, upgraded, cache, heap, stores>>

\* typedSignatureCache.Load(key) and the type assertion (lines 361-363)
Load(c) ==
    /\ ~Panicked
    /\ callers[c].pc = "load"
    /\ LET me == callers[c]
       IN  IF me.key \in DOMAIN cache
           THEN IF Implements(heap[cache[me.key]], me.TInput, me.TOutput)
                THEN callers' = [callers EXCEPT ![c] = Returned(me, FALSE, cache[me.key])]
                ELSE callers' = [callers EXCEPT ![c] = At(me, "panicked")]
           ELSE callers' = [callers EXCEPT ![c] = At(me, "build")]
    /\ Forget
    /\ UNCHANGED <<untyped, tin, tout, ts, upgraded, cache, heap, stores>>

\* createTypedSignatureImpl (line 366): a new instance, at an address of its own
Build(c) ==
    /\ ~Panicked
    /\ callers[c].pc = "build"
    /\ LET me == callers[c]
       IN  /\ heap' = MapPut(heap, <<c, 1>>,
                        Allocated(createTypedSignatureImpl(me.TInput, me.TOutput,
                                      me.key.inputType, me.key.outputType), <<c, 1>>))
           /\ callers' = [callers EXCEPT ![c] = At(me, "store")]
    /\ Forget
    /\ UNCHANGED <<untyped, tin, tout, ts, upgraded, cache, stores>>

\* sync.Map.LoadOrStore had it been Store: the last writer wins
LoadOrStoreOverwriting(c) ==
    /\ ~Panicked
    /\ callers[c].pc = "store"
    /\ LET me == callers[c]
       IN  /\ cache' = MapPut(cache, me.key, <<c, 1>>)
           /\ stores' = MapPut(stores, me.key,
                            IF me.key \in DOMAIN stores THEN stores[me.key] + 1 ELSE 1)
           /\ callers' = [callers EXCEPT ![c] = Returned(me, TRUE, <<c, 1>>)]
    /\ Forget
    /\ UNCHANGED <<untyped, tin, tout, ts, upgraded, heap>>

\* typedSignatureCache.LoadOrStore(key, signature) and the return (lines 370-373)
LoadOrStore(c) ==
    /\ ~Panicked
    /\ callers[c].pc = "store"
    /\ LET me == callers[c]
       IN  IF me.key \in DOMAIN cache
           THEN /\ IF Implements(heap[cache[me.key]], me.TInput, me.TOutput)
                   THEN callers' = [callers EXCEPT ![c] = Returned(me, TRUE, cache[me.key])]
                   ELSE callers' = [callers EXCEPT ![c] = At(me, "panicked")]
                /\ UNCHANGED <<cache, stores>>
           ELSE /\ cache' = MapPut(cache, me.key, <<c, 1>>)
                /\ stores' = MapPut(stores, me.key,
                                IF me.key \in DOMAIN stores THEN stores[me.key] + 1 ELSE 1)
                /\ callers' = [callers EXCEPT ![c] = Returned(me, TRUE, <<c, 1>>)]
    /\ Forget
    /\ UNCHANGED <<untyped, tin, tout, ts, upgraded, heap>>

\* the instances WithInstruction returned
Derived == {d \in DOMAIN heap : d[1] = 0}

\* WithInstruction had it set the instruction on the receiver and returned it
CallWithInstructionInPlace(a) ==
    /\ ~Panicked
    /\ a \in Held
    /\ Cardinality(Derived) < MaxDerived
    /\ \E instruction \in Instructions :
        heap' = [heap EXCEPT ![a].metadata.Instruction = instruction]
    /\ Forget
    /\ UNCHANGED <<untyped, tin, tout, ts, upgraded, cache, stores, callers>>

\* sig.WithInstruction(instruction): the copy is a new instance
CallWithInstruction(a) ==
    /\ ~Panicked
    /\ a \in Held
    /\ Cardinality(Derived) < MaxDerived
    /\ \E instruction \in Instructions :
        heap' = MapPut(heap, <<0, Cardinality(Derived) + 1>>,
                       WithInstruction(heap[a], instruction))
    /\ Forget
    /\ UNCHANGED <<untyped, tin, tout, ts, upgraded, cache, stores, callers>>

\* sig.GetFieldMetadata()
CallGetFieldMetadata(a) ==
    /\ ~Panicked
    /\ a \in Held
    /\ metadata' = GetFieldMetadata(heap[a])
    /\ legacy' = None /\ val' = None /\ result' = None
    /\ UNCHANGED <<untyped, tin, tout, ts, upgraded, cache, heap, stores, callers>>

\* sig.ToLegacySignature()
CallToLegacySignature(a) ==
    /\ ~Panicked
    /\ a \in Held
    /\ legacy' = ToLegacySignature(heap[a])
    /\ metadata' = None /\ val' = None /\ result' = None
    /\ UNCHANGED <<untyped, tin, tout, ts, upgraded, cache, heap, stores, callers>>

\* sig.ValidateInput(v)
CallValidateInput(a) ==
    /\ ~Panicked
    /\ a \in Held
    /\ \E v \in ValuesOf(heap[a].TInput) :
        /\ val' = v
        /\ \E e \in ValidateInput(heap[a], v) : result' = [side |-> "input", err |-> e]
    /\ metadata' = None /\ legacy' = None
    /\ UNCHANGED <<untyped, tin, tout, ts, upgraded, cache, heap, stores, callers>>

\* sig.ValidateOutput(v)
CallValidateOutput(a) ==
    /\ ~Panicked
    /\ a \in Held
    /\ \E v \in ValuesOf(heap[a].TOutput) :
        /\ val' = v
        /\ \E e \in ValidateOutput(heap[a], v) : result' = [side |-> "output", err |-> e]
    /\ metadata' = None /\ legacy' = None
    /\ UNCHANGED <<untyped, tin, tout, ts, upgraded, cache, heap, stores, callers>>

\* the addresses instances are allocated at: <<c, 1>> built by caller c,
\* <<0, n>> the n-th one WithInstruction returned
Addresses == (Callers \X {1}) \cup ({0} \X (1..MaxDerived))

Next ==
    \/ \E c \in Callers : Call(c) \/ Load(c) \/ Build(c) \/ LoadOrStore(c)
    \/ \E a \in Addresses :
        \/ CallWithInstruction(a)
        \/ CallGetFieldMetadata(a)
        \/ CallToLegacySignature(a)
        \/ CallValidateInput(a)
        \/ CallValidateOutput(a)

Spec == Init /\ [][Next]_vars

(***************************************************************************)
(* What the signature cache is claimed to do.                              *)
(***************************************************************************)
Done(c) == callers[c].pc = "done"
SamePair(c, impl) == callers[c].TInput = impl.TInput /\ callers[c].TOutput = impl.TOutput

\* C1: under every interleaving of the callers' load, build and load-or-store
\* steps, one value at most is ever stored under a key, every caller that
\* returns returns the instance stored under its key (a builder that lost the
\* race included), and no caller of the stored instance's own type pair fails.
C1_OneInstancePerKey ==
    /\ \A k \in DOMAIN stores : stores[k] = 1 /\ k \in DOMAIN cache
    /\ \A c \in Callers :
        /\ Done(c) => callers[c].key \in DOMAIN cache /\ callers[c].ret = cache[callers[c].key]
        /\ callers[c].pc = "panicked" => ~SamePair(c, heap[cache[callers[c].key]])
    /\ \A c, d \in Callers :
        (Done(c) /\ Done(d) /\ callers[c].key = callers[d].key)
            => callers[c].ret = callers[d].ret

\* a caller built its own instance, lost the race and returned the winner's
C1_Witness ==
    \E c \in Callers :
        /\ Done(c) /\ callers[c].built
        /\ callers[c].ret # <<c, 1>>
        /\ SamePair(c, heap[callers[c].ret])

\* the metadata the introspector yields for a key's two types
CompleteMetadata(k) ==
    [Inputs |-> parseStructFields(k.inputType, TRUE),
     Outputs |-> parseStructFields(k.outputType, FALSE),
     Instruction |-> ""]

\* C2: a published entry holds the complete metadata of its key's types, and no
\* step (get-or-create, WithInstruction, GetFieldMetadata, ToLegacySignature,
\* ValidateInput, ValidateOutput) replaces it, removes it or changes its metadata.
C2_PublishedEntryImmutable ==
    /\ [](\A k \in DOMAIN cache : heap[cache[k]].metadata = CompleteMetadata(k))
    /\ [][\A k \in DOMAIN cache :
            /\ k \in DOMAIN cache'
            /\ cache'[k] = cache[k]
            /\ heap'[cache[k]] = heap[cache[k]]]_vars

\* an entry is published, WithInstruction was called on it and a method call
\* returned, and a later get-or-create found the entry
C2_Witness ==
    /\ Derived # {}
    /\ result # None
    /\ \E c \in Callers :
        /\ Done(c) /\ ~callers[c].built
        /\ \E d \in Derived : heap[d].metadata.Inputs = heap[callers[c].ret].metadata.Inputs

\* the elements of a list
SeqSet(q) == {q[i] : i \in DOMAIN q}

\* the field lists of an instance hold an Item pointer or a Properties map
HasNested(impl) ==
    \E d \in SeqSet(impl.metadata.Inputs) \cup SeqSet(impl.metadata.Outputs) :
        ~d.Item.isnil \/ ~d.Properties.isnil

\* two instances whose field lists point to the same Item descriptors and
\* Properties maps
SharesDescriptors(x, y) == HasNested(x) /\ x.items = y.items

\* C15: the instance WithInstruction returns shares no descriptor, top-level or
\* nested through Item or Properties, with any other instance, the receiver and
\* the cached entries included.
C15_WithInstructionDeepCopy ==
    \A d \in Derived : \A a \in (DOMAIN heap) \ {d} :
        ~SharesDescriptors(heap[d], heap[a])

\* C16: no get-or-create call aborts, each returns an instance built for the
\* type pair it was called with, and two calls are served by one cache entry
\* only when their type pairs are identical.
C16_ExactPairNoAbort ==
    /\ \A c \in Callers :
        /\ callers[c].pc # "panicked"
        /\ Done(c) => SamePair(c, heap[callers[c].ret])
    /\ \A c, d \in Callers :
        (callers[c].pc # "idle" /\ callers[d].pc # "idle"
            /\ callers[c].key = callers[d].key)
        => (callers[c].TInput = callers[d].TInput
            /\ callers[c].TOutput = callers[d].TOutput)

(***************************************************************************)
(* What the validator is claimed to do.                                    *)
(***************************************************************************)
PropsSet(e) ==
    IF e.Properties.isnil THEN {}
    ELSE {e.Properties.entries[n] : n \in DOMAIN e.Properties.entries}
Deref(v) == IF v.k = "ptr" THEN ValueElem(v) ELSE v
FieldOf(v, e) == IF v.k = "struct" THEN FieldByName(v, e.GoFieldName) ELSE VInvalid
Unset(v, e) == ~IsValid(FieldOf(v, e)) \/ IsZero(FieldOf(v, e))

\* the descriptors the last validation was run against, and its root path
Validated == IF result.side = "input" THEN ts.metadata.Inputs ELSE ts.metadata.Outputs
Root == <<result.side>>
Outcomes(v) == IF result.side = "input" THEN ValidateInput(ts, v) ELSE ValidateOutput(ts, v)
ValidatedRecord == result # None /\ tin.kind = "struct"

\* every required field is non-zero, recursively inside the required Object fields
RECURSIVE AllRequiredMet(_, _)
AllRequiredMet(v, fields) ==
    \A e \in fields : e.Required =>
        /\ ~Unset(v, e)
        /\ e.Type = FieldTypeObject =>
                AllRequiredMet(Deref(FieldOf(v, e)), PropsSet(e))

\* C3: whenever every required field of a record value is non-zero, at the top
\* level and inside each required Object field (nested record, pointer to record
\* or mapping), validate returns ok.
C3_OkWhenRequiredMet ==
    (ValidatedRecord /\ AllRequiredMet(val, SeqSet(Validated))) => result.err = Ok

\* the struct type an Object descriptor describes
DescribedStruct(e) == IF e.GoType.kind = "ptr" THEN Elem(e.GoType) ELSE e.GoType

\* the properties of an Object descriptor, in the order their fields are declared
RECURSIVE DeclOrderLoop(_, _, _)
DeclOrderLoop(fields, i, props) ==
    IF i > Len(fields) THEN <<>>
    ELSE LET ds == {d \in props : d.GoFieldName = fields[i].Name}
         IN  (IF ds = {} THEN <<>> ELSE <<CHOOSE d \in ds : TRUE>>)
             \o DeclOrderLoop(fields, i + 1, props)
DeclOrder(e) ==
    IF DescribedStruct(e).kind # "struct" THEN <<>>
    ELSE DeclOrderLoop(DescribedStruct(e).fields, 1, PropsSet(e))

\* the first unmet required field in declaration order, depth first
RECURSIVE FirstUnmet(_, _, _, _)
FirstUnmet(v, expected, i, path) ==
    IF i > Len(expected) THEN Ok
    ELSE LET e == expected[i]
             rest == FirstUnmet(v, expected, i + 1, path)
         IN  IF ~e.Required THEN rest
             ELSE IF Unset(v, e) THEN ErrRequired(path, e.Name)
             ELSE IF e.Type = FieldTypeObject /\ Deref(FieldOf(v, e)).k = "struct"
             THEN LET sub == FirstUnmet(Deref(FieldOf(v, e)), DeclOrder(e), 1,
                                        Append(path, e.Name))
                  IN  IF sub # Ok THEN sub ELSE rest
             ELSE rest

\* C4: a RequiredFieldMissing error names the first unmet required field in
\* declaration order, at the top level and at every nested Object level.
C4_FirstUnmetInDeclarationOrder ==
    (ValidatedRecord /\ result.err.kind = "RequiredFieldMissing")
        => result.err = FirstUnmet(val, Validated, 1, Root)

\* two values agree on the required fields, and recursively on the required
\* properties of the required Object fields; Array fields agree on their length
RECURSIVE AgreeOnRequired(_, _, _)
AgreeOnRequired(v1, v2, fields) ==
    \A e \in fields : e.Required =>
        LET f1 == FieldOf(v1, e)
            f2 == FieldOf(v2, e)
        IN  IF e.Type = FieldTypeObject /\ Deref(f1).k = "struct" /\ Deref(f2).k = "struct"
            THEN f1.k = f2.k /\ AgreeOnRequired(Deref(f1), Deref(f2), PropsSet(e))
            ELSE IF e.Type = FieldTypeArray /\ f1.k = "slice" /\ f2.k = "slice"
            THEN f1.isnil = f2.isnil /\ Len(f1.elems) = Len(f2.elems)
            ELSE f1 = f2

\* as AgreeOnRequired, and each required Object field is zero in both or in neither
RECURSIVE AgreeOnRequiredAndZero(_, _, _)
AgreeOnRequiredAndZero(v1, v2, fields) ==
    \A e \in fields : e.Required =>
        LET f1 == FieldOf(v1, e)
            f2 == FieldOf(v2, e)
        IN  IF e.Type = FieldTypeObject /\ Deref(f1).k = "struct" /\ Deref(f2).k = "struct"
            THEN /\ f1.k = f2.k
                 /\ IsZero(f1) = IsZero(f2)
                 /\ AgreeOnRequiredAndZero(Deref(f1), Deref(f2), PropsSet(e))
            ELSE IF e.Type = FieldTypeArray /\ f1.k = "slice" /\ f2.k = "slice"
            THEN f1.isnil = f2.isnil /\ Len(f1.elems) = Len(f2.elems)
            ELSE f1 = f2

\* C5 as stated: a value that agrees with the validated one on every required
\* field (recursively, on the required properties of required Object fields)
\* gets the same result, whatever its other fields and Array elements hold.
C5_SameResultOnRequiredAgreement ==
    ValidatedRecord =>
        \A v2 \in ValuesOf(tin) :
            AgreeOnRequired(val, v2, SeqSet(Validated)) => result.err \in Outcomes(v2)

\* C5 amended: a value that agrees with the validated one on every required field,
\* and on whether each required Object field is zero, recursively, gets the same
\* result, whatever its other fields and Array elements hold.
C5_SameResultOnRequiredAndZeroAgreement ==
    ValidatedRecord =>
        \A v2 \in ValuesOf(tin) :
            AgreeOnRequiredAndZero(val, v2, SeqSet(Validated))
                => result.err \in Outcomes(v2)

\* a validation that failed below the top level, of a value that another value,
\* different in a field that is not checked, agrees with
C5_Witness ==
    /\ ValidatedRecord
    /\ result.err.kind = "RequiredFieldMissing"
    /\ Len(result.err.path) > 1
    /\ \E v2 \in ValuesOf(tin) :
            v2 # val /\ AgreeOnRequiredAndZero(val, v2, SeqSet(Validated))

\* the records validation reaches through chains of non-zero required Object fields
RECURSIVE Contexts(_, _, _)
Contexts(v, fields, path) ==
    {[v |-> v, fields |-> fields, path |-> path]}
    \cup UNION {Contexts(Deref(FieldOf(v, e)), PropsSet(e), Append(path, e.Name)) :
                e \in {x \in fields : /\ x.Required
                                      /\ x.Type = FieldTypeObject
                                      /\ ~Unset(v, x)
                                      /\ Deref(FieldOf(v, x)).k = "struct"}}

UnmetIn(ctx) == {e \in ctx.fields : e.Required /\ Unset(ctx.v, e)}

\* the checks validation would fail on, over all the records it reaches
Failures(v, fields, path) ==
    UNION {{<<ctx.path, e.Name, "unmet">> : e \in UnmetIn(ctx)}
           \cup {<<ctx.path, e.Name, "notstruct">> :
                    e \in {x \in ctx.fields : /\ x.Required
                                              /\ x.Type = FieldTypeObject
                                              /\ ~Unset(ctx.v, x)
                                              /\ Deref(FieldOf(ctx.v, x)).k # "struct"}} :
           ctx \in Contexts(v, fields, path)}

\* C6 as stated: for a chain f1...fk of non-zero required Object fields with an
\* unmet required field inside fk, validate fails with RequiredFieldMissing whose
\* path is the root path extended by f1...fk.
C6_NestedUnmetReportedAtItsPath ==
    ValidatedRecord =>
        \A ctx \in Contexts(val, SeqSet(Validated), Root) :
            (Len(ctx.path) > 1 /\ UnmetIn(ctx) # {}) =>
                /\ result.err.kind = "RequiredFieldMissing"
                /\ result.err.path = ctx.path

\* C6 amended: for such a chain validate fails, and when that field is the only
\* check the value fails, the error is RequiredFieldMissing naming it with the
\* root path extended by f1...fk.
C6_NestedUnmetFails ==
    ValidatedRecord =>
        \A ctx \in Contexts(val, SeqSet(Validated), Root) :
            \A e \in UnmetIn(ctx) :
                Len(ctx.path) > 1 =>
                    /\ result.err # Ok
                    /\ Failures(val, SeqSet(Validated), Root) = {<<ctx.path, e.Name, "unmet">>}
                        => result.err = ErrRequired(ctx.path, e.Name)

\* a required field two Object levels down is the only one unmet, and is reported
C6_Witness ==
    /\ ValidatedRecord
    /\ \E ctx \in Contexts(val, SeqSet(Validated), Root) :
        /\ Len(ctx.path) = 3
        /\ \E e \in UnmetIn(ctx) :
            /\ Failures(val, SeqSet(Validated), Root) = {<<ctx.path, e.Name, "unmet">>}
            /\ result.err = ErrRequired(ctx.path, e.Name)

(***************************************************************************)
(* What the introspector and the legacy bridge are claimed to produce.     *)
(***************************************************************************)
\* a descriptor, and every descriptor nested in its Item and Properties
RECURSIVE Reach(_)
Reach(d) ==
    {d} \cup (IF d.Item.isnil THEN {} ELSE Reach(d.Item.ref))
        \cup (IF d.Properties.isnil THEN {}
              ELSE UNION {Reach(d.Properties.entries[n]) : n \in DOMAIN d.Properties.entries})

\* every descriptor of a signature's metadata, at any depth
DescriptorsOf(sig) ==
    UNION ({Reach(sig.metadata.Inputs[i]) : i \in DOMAIN sig.metadata.Inputs}
           \cup {Reach(sig.metadata.Outputs[i]) : i \in DOMAIN sig.metadata.Outputs})

Produced == {ts, upgraded} \ {None}

ShapeOk(d) ==
    /\ d.Type = FieldTypeArray => ~d.Item.isnil /\ d.Properties.isnil
    /\ d.Type = FieldTypeObject => ~d.Properties.isnil /\ d.Item.isnil

\* C7: every descriptor of every metadata produced, by describing a type or by
\* upgrading a legacy signature, has a non-null Item and null Properties when
\* its type is Array, non-null Properties and a null Item when it is Object.
C7_ShapeInvariant ==
    \A sig \in Produced : \A d \in DescriptorsOf(sig) : ShapeOk(d)

\* the struct a declared type stands for once one pointer is taken off
StructOf(t) == IF t.kind = "ptr" THEN Elem(t) ELSE t

Visible(t) == {i \in DOMAIN t.fields : IsExported(t.fields[i])}

UniqueNames(list) ==
    \A i, j \in DOMAIN list : i # j => list[i].Name # list[j].Name

\* C8: in the metadata of a described type, no two sibling descriptors share an
\* external name, and there is one descriptor for each visible declared field,
\* at the top level and in the Properties of every Object descriptor.
C8_UniqueSiblingNames ==
    ts # None =>
        /\ UniqueNames(ts.metadata.Inputs)
        /\ UniqueNames(ts.metadata.Outputs)
        /\ Len(ts.metadata.Inputs) = Cardinality(Visible(ts.inputType))
        /\ Len(ts.metadata.Outputs) = Cardinality(Visible(ts.outputType))
        /\ \A d \in DescriptorsOf(ts) :
            (d.Type = FieldTypeObject /\ StructOf(d.GoType).kind = "struct") =>
                Cardinality(DOMAIN d.Properties.entries)
                    = Cardinality(Visible(StructOf(d.GoType)))

\* the prefix directive of the field a struct type declares under a Go name
DirectiveOf(t, goName) ==
    LET st == StructOf(t)
    IN  (CHOOSE f \in {st.fields[i] : i \in DOMAIN st.fields} : f.Name = goName).prefix

\* the default prefix at a descriptor and at everything nested in it
RECURSIVE DefaultPrefixes(_, _, _)
DefaultPrefixes(d, directive, isInput) ==
    /\ directive = "" =>
        d.Prefix = (IF isInput THEN Str("") ELSE <<d.Name, ":">>)
    /\ d.Item.isnil \/ DefaultPrefixes(d.Item.ref, "", isInput)
    /\ d.Properties.isnil
        \/ \A n \in DOMAIN d.Properties.entries :
            LET child == d.Properties.entries[n]
            IN  DefaultPrefixes(child, DirectiveOf(d.GoType, child.GoFieldName), isInput)

\* C9: a descriptor of a field with no prefix directive has the empty prefix in
\* the input shape and "<name>:" in the output shape, at the top level and in
\* the Properties and Items below it.
C9_DefaultPrefix ==
    ts # None =>
        /\ \A i \in DOMAIN ts.metadata.Inputs :
            LET d == ts.metadata.Inputs[i]
            IN  DefaultPrefixes(d, DirectiveOf(ts.inputType, d.GoFieldName), TRUE)
        /\ \A i \in DOMAIN ts.metadata.Outputs :
            LET d == ts.metadata.Outputs[i]
            IN  DefaultPrefixes(d, DirectiveOf(ts.outputType, d.GoFieldName), FALSE)

\* C10: the Item of an Array descriptor describes the element type of the
\* sequence the field's type is once one pointer is taken off, and its semantic
\* type is that element type's classification.
C10_ItemDescribesElement ==
    ts # None =>
        \A d \in DescriptorsOf(ts) :
            d.Type = FieldTypeArray =>
                LET elem == Elem(StructOf(d.GoType))
                IN  /\ d.Item.ref.GoType = elem
                    /\ d.Item.ref.Type = inferFieldType(elem)

(***************************************************************************)
(* What the schema synthesizer is claimed to produce.                      *)
(***************************************************************************)
\* the OBJECT nodes of a schema, each with the struct type it was derived from
RECURSIVE ObjectNodes(_, _)
ObjectNodes(node, t) ==
    IF t.kind = "struct" /\ node.Type = TypeObject
    THEN {<<node, t>>}
         \cup UNION {ObjectNodes(node.Properties.entries[JsonFieldName(t.fields[i])],
                                 baseType(t.fields[i].Type)) : i \in Visible(t)}
    ELSE IF t.kind \in {"slice", "array"} /\ node.Type = TypeArray
    THEN ObjectNodes(node.Items.ref, baseType(Elem(t)))
    ELSE {}

\* the directive of a field marks it optional
MarkedOptional(f) == "omitempty" \in {f.json[i] : i \in 2..Len(f.json)}

\* C13: in every OBJECT node derived from a struct type, at any depth, the
\* Required list names exactly the visible fields whose directive does not mark
\* them optional, all of them keys of Properties; the introspector does the
\* opposite for the same fields, none of which its directive marks required.
C13_RequiredUnlessOptional ==
    schema # None =>
        /\ \A p \in ObjectNodes(schema, tin) :
            /\ SeqSet(p[1].Required)
                = {JsonFieldName(p[2].fields[i]) :
                       i \in {j \in Visible(p[2]) : ~MarkedOptional(p[2].fields[j])}}
            /\ SeqSet(p[1].Required) \subseteq DOMAIN p[1].Properties.entries
        /\ ts # None => \A d \in SeqSet(ts.metadata.Inputs) : ~d.Required

\* a nested OBJECT node with a required property and an optional one
C13_Witness ==
    /\ schema # None /\ ts # None
    /\ \E p \in ObjectNodes(schema, tin) :
        /\ p[1] # schema
        /\ p[1].Required # <<>>
        /\ SeqSet(p[1].Required) # DOMAIN p[1].Properties.entries

\* the kinds said to be the same; the fallback Text beside the fallback STRING
\* and beside NUMBER, which the introspector has no kind for
SameKinds ==
    {<<FieldTypeString, TypeString>>, <<FieldTypeInt, TypeInteger>>,
     <<FieldTypeBool, TypeBoolean>>, <<FieldTypeArray, TypeArray>>,
     <<FieldTypeObject, TypeObject>>, <<FieldTypeText, TypeString>>,
     <<FieldTypeText, TypeNumber>>}

\* a kind of the introspector and a kind of the synthesizer agree: neither is
\* one of the kinds said to be the same, or they are the same
SameKind(ft, st) ==
    (\E k \in SameKinds : k[1] = ft \/ k[2] = st) => <<ft, st>> \in SameKinds

\* C14: each field of a struct type is classified by the synthesizer into the
\* kind the introspector classifies it into.
C14_SameClassification ==
    (schema # None /\ ts # None) =>
        \A d \in SeqSet(ts.metadata.Inputs) :
            LET f == CHOOSE x \in SeqSet(tin.fields) : x.Name = d.GoFieldName
            IN  SameKind(d.Type, schema.Properties.entries[JsonFieldName(f)].Type)

(***************************************************************************)
(* What the shorthand parser is claimed to produce.                        *)
(***************************************************************************)
\* the positions an arrow starts at
Arrows(s) == {i \in 1..(Len(s) - 1) : s[i] = "-" /\ s[i + 1] = ">"}

\* the n-th smallest member of a set of numbers
Nth(S, n) == CHOOSE p \in S : Cardinality({q \in S : q < p}) = n - 1

\* a text without the spaces around it
Trimmed(w) ==
    LET ink == {i \in 1..Len(w) : w[i] # " "}
    IN  IF ink = {} THEN <<>>
        ELSE SubSeq(w, CHOOSE a \in ink : \A i \in ink : a <= i,
                       CHOOSE b \in ink : \A i \in ink : i <= b)

\* the comma-separated items of a text, in order, each without the spaces around it
Items(w) ==
    LET cuts == {0, Len(w) + 1} \cup {i \in 1..Len(w) : w[i] = ","}
    IN  [k \in 1..(Cardinality(cuts) - 1) |->
            Trimmed(SubSeq(w, Nth(cuts, k) + 1, Nth(cuts, k + 1) - 1))]

\* a field list holds one Text field for each item, named after it and otherwise empty
ShorthandFields(fields, items) ==
    /\ Len(fields) = Len(items)
    /\ \A i \in 1..Len(items) :
        /\ fields[i].Name = items[i]
        /\ fields[i].Type = FieldTypeText
        /\ fields[i].Description = ""
        /\ fields[i].Prefix = Str("")

\* C11: a text with exactly one arrow parses, and each side yields one field for
\* each of its comma-separated items in order, with the trimmed item for Name,
\* Text for Type (which the renderer prints no type for) and an empty Description
\* and Prefix.
C11_ShorthandFields ==
    (parsed # None /\ Cardinality(Arrows(notation)) = 1) =>
        LET at == CHOOSE i \in Arrows(notation) : TRUE
        IN  /\ parsed.err = "nil"
            /\ ShorthandFields(parsed.sig.Inputs, Items(SubSeq(notation, 1, at - 1)))
            /\ ShorthandFields(parsed.sig.Outputs,
                               Items(SubSeq(notation, at + 2, Len(notation))))
            /\ "text" \in DOMAIN parsed =>
                \A l \in SeqSet(parsed.text.Inputs) \cup SeqSet(parsed.text.Outputs) :
                    l.typeStr = <<>>

(***************************************************************************)
(* What AppendInput and PrependOutput are claimed to do.                   *)
(***************************************************************************)
\* a call was made in this step: the signature it returned and its receiver
Returns(n) == Len(sigs') = Len(sigs) + 1 /\ n = Len(sigs')

\* C12: the signature AppendInput returns has the receiver's inputs followed by
\* the new field, the one PrependOutput returns has the new field followed by
\* the receiver's outputs; the other list and the instruction are the
\* receiver's, and the receiver's inputs, outputs and instruction are the same
\* after the call as before it.
C12_AppendPrependFrame ==
    [][\A n \in 1..MaxSigs : Returns(n) =>
        LET new == sigs'[n]
            old == sigs[new.from].sig
            ins == Elems(old.Inputs, arrays)
            outs == Elems(old.Outputs, arrays)
        IN  /\ new.op = "AppendInput" =>
                /\ Elems(new.sig.Inputs, arrays') = Append(ins, new.field)
                /\ Elems(new.sig.Outputs, arrays') = outs
            /\ new.op = "PrependOutput" =>
                /\ Elems(new.sig.Outputs, arrays') = <<new.field>> \o outs
                /\ Elems(new.sig.Inputs, arrays') = ins
            /\ new.sig.Instruction = old.Instruction
            /\ sigs'[new.from] = sigs[new.from]
            /\ Elems(old.Inputs, arrays') = ins
            /\ Elems(old.Outputs, arrays') = outs]_vars

\* both calls returned, one of them appending in place into the receiver's array
C12_Witness ==
    /\ \E i \in 1..Len(sigs) : sigs[i].op = "PrependOutput"
    /\ \E i \in 1..Len(sigs) :
        /\ sigs[i].op = "AppendInput"
        /\ sigs[i].sig.Inputs.arr = sigs[sigs[i].from].sig.Inputs.arr

\* C17: a signature AppendInput returned has, after every later call on any
\* signature, the inputs it had when it was returned.
C17_AppendedInputsKept ==
    \A i \in 1..Len(sigs) :
        sigs[i].op = "AppendInput" => Elems(sigs[i].sig.Inputs, arrays) = sigs[i].Inputs
====
